---- MODULE Spec2Model ----
(***************************************************************************)
(* Message routing substrate of retrievio: AsyncMessageQueue               *)
(* (src/src/messaging/queue.py) and MessageBroker                          *)
(* (src/src/messaging/broker.py), run by a single asyncio event loop.      *)
(*                                                                         *)
(* Spec        : registration, subscription and publish fan-out.           *)
(* MailboxSpec : delivery and retrieval (get_message, get_all_messages),   *)
(*               with a discrete clock for the timeouts.                   *)
(* LiveSpec    : MailboxSpec with the fairness of the event loop.          *)
(***************************************************************************)
EXTENDS Integers, Sequences, FiniteSets, TLC

\* ---------------------------------------------------------------- bounds
Agents == {"S", "R", "X", "Y"}          \* worker names
Senders == {"S"}                        \* names used as message.sender
SubscriberIds == {"X", "Y"}             \* names passed as subscriber
NoReceiver == ""                        \* message.receiver left empty (falsy)
ReceiverIds == {"R", "X", NoReceiver}       \* values of message.receiver
MailboxIds == {"R"}                     \* mailboxes used in MailboxSpec
RetrievalIds == {"R", "X"}              \* ids retrieved from in RetrievalSpec; X never registers
NoTimeout == -1                         \* timeout=None
Timeouts == {NoTimeout, 0, 1}           \* values of the timeout argument
ConcTimeouts == {NoTimeout, 1}          \* values of the timeout argument in ConcurrentSpec
None == 0                               \* the not-found result (message ids start at 1)
MaxMsgs == 2                            \* publish calls per behaviour
MaxSubs == 2                            \* subscribe calls per behaviour
MaxGets == 2                            \* get_message calls per behaviour
MaxTime == 1                            \* last tick of the clock
LiveMsgs == 1                           \* publish calls per behaviour of LiveSpec
LiveGets == 2                           \* get_message calls per behaviour of LiveSpec
PubMsgs == 2                            \* publish calls per behaviour of PublishSpec
PubGets == 1                            \* get_message calls per behaviour of PublishSpec
ConcMsgs == 1                           \* publish calls per behaviour of ConcurrentSpec
ConcGets == 2                           \* get_message calls per behaviour of ConcurrentSpec
FlowIds == {"f1", "f2"}                 \* values of flow_id
Subjects == {"doc.pdf", "b.pdf"}        \* values of document_path
Labels == {"parsing", "parsed"}         \* values of status and of step (free-form)
MaxSteps == 2                           \* update_flow calls recorded per flow
CommAgents == {"A", "B"}                \* agent names of the synchronous path
MaxSends == 2                           \* send_message calls per behaviour
ChunkLists == {<<>>, <<"chunk">>, <<"dict">>}   \* chunks: objects with .text, or plain dicts
Requesters == {"Text Chunker"}          \* senders of the messages the embedder handles
MessageTypes == {"embed_request", "data"}  \* message_type of the messages handled
MaxEmbeds == 2                          \* embed_chunks and handle_message calls per behaviour
Entries == {"session", "agent"}         \* python -m src, or one agent constructed on its own
MaxRuns == 2                            \* set-up runs per behaviour
ActionNames == {"set_workspace", "process_document", "search", "ask", "summarize"}
CustomNames == {"summarize"}            \* names given to register_action after construction
CustomHandlers == {"returns", "raises"} \* handlers given to register_action
Paths == {"ws", "denied"}               \* action inputs; "denied" cannot be created
MaxActions == 2                         \* handle_action calls per behaviour
Workers == {"w1", "w2"}                 \* tasks of the event loop
NoTask == ""                            \* nobody occupies the event-loop thread
\* the coroutines that call an external collaborator
Ops == {"parse_pdf", "chunk_text", "embed_chunks", "store_chunks", "search",
        "process_query", "generate_answer", "process_input", "analyze_document"}
StepKinds == {"publish", "next"}        \* the broker operations of the other tasks
IdleTask == [op |-> "", pc |-> "idle"]
NoStep == [task |-> NoTask, kind |-> "", during |-> FALSE]
Files == {"a.pdf", "b.pdf"}             \* documents dropped into WATCH_DIR
Stems == {"a", "b"}                     \* Path.stem of the documents
Texts == {"", "text"}                   \* what text extraction yields
MaxChunks == 2                          \* chunks the chunker makes of a text
MaxPipeRuns == 2                        \* process_document calls per behaviour
IoOperations == {"read", "write", "list", "exists", "move"}
IoNames == IoOperations \cup {"invalid_op"}   \* values of operation
IoPaths == {"a.txt", "b.txt"}           \* values of path
IoNone == "<None>"                      \* content=None
IoContents == {IoNone, "x", "b.txt"}    \* values of content (text, or destination of move)
Stages == {"parsing", "chunking", "embedding"}   \* pipeline stages updating one flow
StageStatuses == {"ok", "failed"}       \* status a stage passes to update_flow
ChunkRequesters == {"Document Parser"}  \* senders of the messages the chunker handles
ChunkMessageTypes == {"chunk_request", "data"}
MaxChunkCalls == 2                      \* handle_message calls of the chunker per behaviour
Characters == {" ", "a"}               \* a space and a character that is not one
MaxTextLen == 4                         \* longest text chunked
MaxChunkSize == 3                       \* largest self.chunk_size
MaxLoopRuns == 9                        \* iterations of the chunking loop followed; a loop that
                                        \* ends has at most MaxTextLen + MaxChunkSize of them
MaxIoCalls == 3                         \* io_fs calls per behaviour

VARIABLES
    queues,         \* AsyncMessageQueue.queues: agent id -> items of its asyncio.Queue (message ids)
    waiters,        \* asyncio.Queue._getters of each mailbox: get_message calls suspended on it
    subscribers,    \* AsyncMessageQueue.subscribers: publisher -> list of subscribers
    subscriptions,  \* MessageBroker.subscriptions: publisher -> set of subscribers
    ready,          \* event loop: put tasks created by publish, not yet run (FIFO)
    pubs,           \* publish calls so far, indexed by message id
    nsubs,          \* subscribe calls so far
    gets,           \* get_message calls so far
    returned,       \* per mailbox: what retrievals took out, in order, and which call took it
    now,            \* the clock
    broker_running, \* MessageBroker._running
    queue_running,  \* AsyncMessageQueue._running
    run_loop,       \* where the task of MessageBroker.start is
    active_flows,   \* FlowCoordinator.active_flows: flow id -> record
    flow_log,       \* per flow id: the update_flow calls since its last start_flow
    message_queues, \* AgentCommunication.message_queues: agent name -> items of its Queue
    sent,           \* send_message calls so far: receiver and value returned
    received,       \* the last get_messages call: agent name and list returned
    embed_calls,    \* EmbedderAgent: embed_chunks and handle_message calls so far
    outbox,         \* EmbedderAgent: the send_message calls it made, in order
    backend,        \* the Ollama server: "up" or "down"
    runs,           \* set-up runs so far: entry point, position, outcome, what was started
    actions,        \* ActionHandler.actions: action name -> handler
    dirs,           \* directories that exist
    action_calls,   \* handle_action calls so far, with their responses
    loop_owner,     \* the task whose synchronous call occupies the event-loop thread, or NoTask
    loop_tasks,     \* per task: the collaborator call it is in, and how it waits for it
    last_step,      \* the last publish or next step a task completed
    pipe_agents,    \* how the pipeline's agents answer a call: "coroutine" or "direct"
    pipe_flows,     \* DocumentPipeline.coordinator.active_flows
    watch_files,    \* files in WATCH_DIR
    processed_files,\* files in PROCESSED_DIR
    chunk_files,    \* per stem: number of files in PROCESSED_DIR/<stem>/chunks
    engagement_files,\* stems with PROCESSED_DIR/<stem>/engagement.json
    pipe_runs,      \* process_document calls so far: file, value returned, where it ended
    io_files,       \* the files io_fs works on: path -> text
    io_calls,       \* io_fs calls so far, with their outcome
    stage_flows,    \* the flow map the concurrent stages share
    stages,         \* per stage: where its update_flow call is, and the status it passed
    stage_holder,   \* the stage whose update_flow call is between two statements, or NoTask
    constructed,    \* names of the RetrievIOAgent objects constructed on the queue
    chunker_calls,  \* TextChunkerAgent: handle_message calls so far
    chunker_outbox, \* TextChunkerAgent: the send_message calls it made, in order
    ct_text,        \* chunk_text: the text being chunked (a sequence of characters)
    ct_chunk_size,  \* self.chunk_size
    ct_overlap,     \* self.overlap
    ct_start,       \* chunk_text: the local start
    ct_chunks,      \* chunk_text: the local list chunks
    ct_pc           \* chunk_text: "idle", in the "loop", or "done"

\* the state of the mailboxes, of the broker's run-loop and of the flow tracker
queueVars == <<queues, waiters, subscribers, subscriptions, ready, pubs, nsubs,
               gets, returned, now>>

brokerVars == <<broker_running, queue_running, run_loop>>

flowVars == <<active_flows, flow_log>>

commVars == <<message_queues, sent, received>>

embedVars == <<embed_calls, outbox>>

setupVars == <<backend, runs>>

actionVars == <<actions, dirs, action_calls>>

loopVars == <<loop_owner, loop_tasks, last_step>>

pipelineVars == <<pipe_agents, pipe_flows, watch_files, processed_files, chunk_files, engagement_files, pipe_runs>>

ioVars == <<io_files, io_calls>>

stageVars == <<stage_flows, stages, stage_holder>>

agentVars == <<constructed>>

chunkerVars == <<chunker_calls, chunker_outbox>>

chunkTextVars == <<ct_text, ct_chunk_size, ct_overlap, ct_start, ct_chunks, ct_pc>>

\* what the operations of one component leave alone: the other components
notQueueVars == <<brokerVars, flowVars, commVars, embedVars, setupVars, actionVars, loopVars, pipelineVars, ioVars, stageVars, agentVars, chunkerVars, chunkTextVars>>

notBrokerVars == <<queueVars, flowVars, commVars, embedVars, setupVars, actionVars, loopVars, pipelineVars, ioVars, stageVars, agentVars, chunkerVars, chunkTextVars>>

notFlowVars == <<queueVars, brokerVars, commVars, embedVars, setupVars, actionVars, loopVars, pipelineVars, ioVars, stageVars, agentVars, chunkerVars, chunkTextVars>>

notCommVars == <<queueVars, brokerVars, flowVars, embedVars, setupVars, actionVars, loopVars, pipelineVars, ioVars, stageVars, agentVars, chunkerVars, chunkTextVars>>

notEmbedVars == <<queueVars, brokerVars, flowVars, commVars, setupVars, actionVars, loopVars, pipelineVars, ioVars, stageVars, agentVars, chunkerVars, chunkTextVars>>

notSetupVars == <<queueVars, brokerVars, flowVars, commVars, embedVars, actionVars, loopVars, pipelineVars, ioVars, stageVars, agentVars, chunkerVars, chunkTextVars>>

notActionVars == <<queueVars, brokerVars, flowVars, commVars, embedVars, setupVars, loopVars, pipelineVars, ioVars, stageVars, agentVars, chunkerVars, chunkTextVars>>

notLoopVars == <<queueVars, brokerVars, flowVars, commVars, embedVars, setupVars, actionVars, pipelineVars, ioVars, stageVars, agentVars, chunkerVars, chunkTextVars>>

notPipelineVars == <<queueVars, brokerVars, flowVars, commVars, embedVars, setupVars, actionVars, loopVars, ioVars, stageVars, agentVars, chunkerVars, chunkTextVars>>

notIoVars == <<queueVars, brokerVars, flowVars, commVars, embedVars, setupVars, actionVars, loopVars, pipelineVars, stageVars, agentVars, chunkerVars, chunkTextVars>>

notStageVars == <<queueVars, brokerVars, flowVars, commVars, embedVars, setupVars, actionVars, loopVars, pipelineVars, ioVars, agentVars, chunkerVars, chunkTextVars>>

notAgentVars == <<queueVars, brokerVars, flowVars, commVars, embedVars, setupVars, actionVars, loopVars, pipelineVars, ioVars, stageVars, chunkerVars, chunkTextVars>>

notChunkerVars == <<queueVars, brokerVars, flowVars, commVars, embedVars, setupVars, actionVars, loopVars, pipelineVars, ioVars, stageVars, agentVars, chunkTextVars>>

notChunkTextVars == <<queueVars, brokerVars, flowVars, commVars, embedVars, setupVars, actionVars, loopVars, pipelineVars, ioVars, stageVars, agentVars, chunkerVars>>

vars == <<queues, waiters, subscribers, subscriptions, ready, pubs, nsubs,
          gets, returned, now, broker_running, queue_running, run_loop,
          active_flows, flow_log, message_queues, sent, received,
          embed_calls, outbox, backend, runs,
          actions, dirs, action_calls,
          loop_owner, loop_tasks, last_step,
          pipe_agents, pipe_flows, watch_files, processed_files, chunk_files, engagement_files, pipe_runs,
          io_files, io_calls,
          stage_flows, stages, stage_holder,
          constructed,
          chunker_calls, chunker_outbox,
          ct_text, ct_chunk_size, ct_overlap, ct_start, ct_chunks, ct_pc>>

\* ---------------------------------------------------------------- helpers
Range(s) == {s[i] : i \in 1..Len(s)}

Max(a, b) == IF a >= b THEN a ELSE b

Count(s, x) == Cardinality({i \in 1..Len(s) : s[i] = x})

\* dict[k] = v on a Python dict modelled as a function with a growing domain
Put(d, k, v) == [x \in DOMAIN d \cup {k} |-> IF x = k THEN v ELSE d[x]]

EmptyDict == [x \in {} |-> <<>>]

\* self.subscribers.get(sender, []): the stored list itself when the key exists,
\* a fresh empty list otherwise (dict.get never inserts)
SubscribersGet(sender) ==
    IF sender \in DOMAIN subscribers THEN subscribers[sender] ELSE <<>>

\* no get_messages call yet
NoCall == [agent |-> "", messages |-> <<>>]

\* the log of a flow id: no call yet
NoCalls == [calls |-> <<>>, restart |-> FALSE, ignored |-> FALSE, asked |-> FALSE]

\* ActionHandler.__init__ and _register_default_actions: the dispatch table
DefaultActions ==
    [n \in {"set_workspace", "process_document", "search", "ask"} |->
        IF n = "set_workspace" THEN "set_workspace" ELSE "pass"]

\* ---------------------------------------------------------------- Init
\* AsyncMessageQueue.__init__, MessageBroker.__init__ and FlowCoordinator.__init__
Init ==
    /\ queues = EmptyDict
    /\ waiters = [a \in Agents |-> <<>>]
    /\ subscribers = EmptyDict
    /\ subscriptions = EmptyDict
    /\ ready = <<>>
    /\ pubs = <<>>
    /\ nsubs = 0
    /\ gets = <<>>
    /\ returned = [a \in Agents |-> <<>>]
    /\ now = 0
    /\ broker_running = TRUE
    /\ queue_running = TRUE
    /\ run_loop = "idle"
    /\ active_flows = EmptyDict
    /\ flow_log = [f \in FlowIds |-> NoCalls]
    /\ message_queues = EmptyDict
    /\ sent = <<>>
    /\ received = NoCall
    /\ embed_calls = <<>>
    /\ outbox = <<>>
    /\ backend = "up"
    /\ runs = <<>>
    /\ actions = DefaultActions
    /\ dirs = {}
    /\ action_calls = <<>>
    /\ loop_owner = NoTask
    /\ loop_tasks = [t \in Workers |-> IdleTask]
    /\ last_step = NoStep
    /\ pipe_agents = "coroutine"
    /\ pipe_flows = EmptyDict
    /\ watch_files = {}
    /\ processed_files = {}
    /\ chunk_files = [d \in Stems |-> 0]
    /\ engagement_files = {}
    /\ pipe_runs = <<>>
    /\ io_files = EmptyDict
    /\ io_calls = <<>>
    /\ stage_flows = [f \in {"f1"} |->       \* after start_flow("f1", "doc.pdf")
                         [status |-> "started", document |-> "doc.pdf",
                          steps_completed |-> <<>>, current_step |-> "parsing"]]
    /\ stages = [t \in Stages |-> [pc |-> "ready", status |-> ""]]
    /\ stage_holder = NoTask
    /\ constructed = {}
    /\ chunker_calls = <<>>
    /\ chunker_outbox = <<>>
    /\ ct_text = <<>>
    /\ ct_chunk_size = 1
    /\ ct_overlap = 0
    /\ ct_start = 0
    /\ ct_chunks = <<>>
    /\ ct_pc = "idle"

\* ---------------------------------------------------------------- register
\* register_agent without its membership test: a fresh queue each time
RegisterAgent_fresh(qs, agent_id) == Put(qs, agent_id, <<>>)

\* the body of AsyncMessageQueue.register_agent on the dict qs
RegisterAgent(qs, agent_id) ==
    IF agent_id \notin DOMAIN qs THEN Put(qs, agent_id, <<>>) ELSE qs

\* AsyncMessageQueue.register_agent (MessageBroker.register_agent passes through)
register_agent(agent_id) ==
    /\ queues' = RegisterAgent(queues, agent_id)
    /\ UNCHANGED notQueueVars
    /\ UNCHANGED <<waiters, subscribers, subscriptions, ready, pubs, nsubs,
                   gets, returned, now>>

\* ---------------------------------------------------------------- subscribe
\* AsyncMessageQueue.subscribe: self.subscribers[publisher] inserts the key
queue_subscribe(subscriber, publisher) ==
    LET cur == SubscribersGet(publisher)
    IN  IF subscriber \notin Range(cur)
        THEN Put(subscribers, publisher, Append(cur, subscriber))
        ELSE Put(subscribers, publisher, cur)

\* MessageBroker.subscribe
subscribe(subscriber, publisher) ==
    /\ nsubs < MaxSubs
    /\ nsubs' = nsubs + 1
    /\ subscriptions' =
          Put(subscriptions, publisher,
              (IF publisher \in DOMAIN subscriptions
               THEN subscriptions[publisher] ELSE {}) \cup {subscriber})
    /\ subscribers' = queue_subscribe(subscriber, publisher)
    /\ UNCHANGED notQueueVars
    /\ UNCHANGED <<queues, waiters, ready, pubs, gets, returned, now>>

\* ---------------------------------------------------------------- publish
\* receivers = self.subscribers.get(sender, []); if message.receiver:
\* receivers.append(message.receiver)
Receivers(sender, receiver) ==
    IF receiver # NoReceiver
    THEN Append(SubscribersGet(sender), receiver)
    ELSE SubscribersGet(sender)

\* list.append mutates the list object: when the key exists, the list stored in
\* self.subscribers is the one appended to
SubscribersAfterPublish(sender, receiver) ==
    IF sender \in DOMAIN subscribers
    THEN [subscribers EXCEPT ![sender] = Receivers(sender, receiver)]
    ELSE subscribers

\* the for loop: one put task per list entry whose name has a queue
RECURSIVE PutTasks(_, _)
PutTasks(receivers, id) ==
    IF receivers = <<>> THEN <<>>
    ELSE LET rest == PutTasks(Tail(receivers), id)
         IN  IF Head(receivers) \in DOMAIN queues
             THEN <<[to |-> Head(receivers), msg |-> id]>> \o rest
             ELSE rest

\* the value publish returns when nothing raised: "return True"
PublishResult(receivers, tasks) == TRUE

\* AsyncMessageQueue.publish up to "await asyncio.gather(*tasks)"; with no task
\* there is no await and the call returns in the same step.  before: the
\* publish calls that had returned when this one began.
publish(sender, receiver) ==
    /\ Len(pubs) < MaxMsgs
    /\ LET id == Len(pubs) + 1
           receivers == Receivers(sender, receiver)
           tasks == PutTasks(receivers, id)
       IN  /\ subscribers' = SubscribersAfterPublish(sender, receiver)
           /\ ready' = ready \o tasks
           /\ pubs' = Append(pubs,
                 [sender |-> sender, receiver |-> receiver,
                  before |-> {p \in 1..Len(pubs) : pubs[p].st = "done"},
                  left |-> Len(tasks),
                  st |-> IF tasks = <<>> THEN "done" ELSE "gather",
                  result |-> PublishResult(receivers, tasks)])
    /\ UNCHANGED notQueueVars
    /\ UNCHANGED <<queues, waiters, subscriptions, nsubs, gets, returned, now>>

\* a queue of capacity one: full as soon as it holds an item
QueueFull_bounded(items) == Len(items) >= 1

\* asyncio.Queue.full for the queues the code makes, asyncio.Queue() with
\* maxsize 0: never full, so that put never suspends
QueueFull(items) == FALSE

\* a put that drops the item
QueuePut_lost(items, item) == items

\* a put that adds at the head of the queue
QueuePut_front(items, item) == <<item>> \o items

\* asyncio.Queue.put_nowait: the item goes to the tail
QueuePut(items, item) == Append(items, item)

\* one put task runs (the event loop runs them in creation order):
\* asyncio.Queue.put on an unbounded queue appends at once and wakes the first
\* suspended getter; after its last put task, gather lets publish return
run_put ==
    /\ ready # <<>>
    /\ ~QueueFull(queues[Head(ready).to])
    /\ LET t == Head(ready)
           w == waiters[t.to]
       IN  /\ queues' = [queues EXCEPT ![t.to] = QueuePut(@, t.msg)]
           /\ pubs' = [pubs EXCEPT ![t.msg].left = @ - 1,
                                   ![t.msg].st = IF pubs[t.msg].left = 1
                                                 THEN "done" ELSE "gather"]
           /\ IF w # <<>>
              THEN /\ waiters' = [waiters EXCEPT ![t.to] = Tail(w)]
                   /\ gets' = [gets EXCEPT ![Head(w)].st = "woken"]
              ELSE UNCHANGED <<waiters, gets>>
    /\ ready' = Tail(ready)
    /\ UNCHANGED notQueueVars
    /\ UNCHANGED <<subscribers, subscriptions, nsubs, returned, now>>

\* ---------------------------------------------------------------- retrieval
\* "if timeout:" a timeout of None or 0 takes the branch without wait_for
Timed(timeout) == timeout # NoTimeout /\ timeout # 0

\* self.queues[agent_id].get() returning None on an empty queue instead of
\* suspending the caller
QueueGet_nowait(g, agent_id, calls) ==
    IF queues[agent_id] # <<>>
    THEN /\ queues' = [queues EXCEPT ![agent_id] = Tail(@)]
         /\ returned' = [returned EXCEPT ![agent_id] =
                            Append(@, [msg |-> Head(queues[agent_id]), by |-> g])]
         /\ gets' = [calls EXCEPT ![g].st = "done",
                                  ![g].res = Head(queues[agent_id])]
         /\ UNCHANGED waiters
    ELSE /\ gets' = [calls EXCEPT ![g].st = "done", ![g].res = None]
         /\ UNCHANGED <<queues, returned, waiters>>

\* asyncio.Queue.get as call g runs it (calls: the call records to update):
\* take the oldest item, or suspend on the queue's getters
QueueGet(g, agent_id, calls) ==
    IF queues[agent_id] # <<>>
    THEN /\ queues' = [queues EXCEPT ![agent_id] = Tail(@)]
         /\ returned' = [returned EXCEPT ![agent_id] =
                            Append(@, [msg |-> Head(queues[agent_id]), by |-> g])]
         /\ gets' = [calls EXCEPT ![g].st = "done",
                                  ![g].res = Head(queues[agent_id])]
         /\ UNCHANGED waiters
    ELSE /\ waiters' = [waiters EXCEPT ![agent_id] = Append(@, g)]
         /\ gets' = [calls EXCEPT ![g].st = "waiting", ![g].waited = TRUE]
         /\ UNCHANGED <<queues, returned>>

\* the record of a get_message call when it begins; deadline: when the timer
\* of wait_for is due (unused without wait_for)
NewGet(agent_id, timeout) ==
    [agent |-> agent_id, timeout |-> timeout,
     deadline |-> IF Timed(timeout) THEN now + timeout ELSE 0,
     known |-> agent_id \in DOMAIN queues, waited |-> FALSE,
     st |-> "start", res |-> None]

\* AsyncMessageQueue.get_message up to its first suspension: None at once for
\* an id without a queue; with a timeout, wait_for schedules get() as a task;
\* without one, get() runs in the caller
get_message(agent_id, timeout) ==
    /\ Len(gets) < MaxGets
    /\ Timed(timeout) => now + timeout <= MaxTime
    /\ LET g == Len(gets) + 1
           rec == NewGet(agent_id, timeout)
       IN  IF agent_id \notin DOMAIN queues
           THEN /\ gets' = Append(gets, [rec EXCEPT !.st = "done"])
                /\ UNCHANGED <<queues, waiters, returned>>
           ELSE IF Timed(timeout)
           THEN /\ gets' = Append(gets, rec)
                /\ UNCHANGED <<queues, waiters, returned>>
           ELSE QueueGet(g, agent_id, Append(gets, rec))
    /\ UNCHANGED notQueueVars
    /\ UNCHANGED <<subscribers, subscriptions, ready, pubs, nsubs, now>>

\* the task of call g runs again: the get() that wait_for scheduled starts, or
\* a getter woken by a put re-checks "while self.empty()"
resume(g) ==
    /\ g \in 1..Len(gets)
    /\ gets[g].st \in {"start", "woken"}
    /\ QueueGet(g, gets[g].agent, gets)
    /\ UNCHANGED notQueueVars
    /\ UNCHANGED <<subscribers, subscriptions, ready, pubs, nsubs, now>>

\* a cancelled get() that takes the head of the queue with it
CancelledGet_drop(items) == IF items = <<>> THEN items ELSE Tail(items)

\* the items of the queue after a get() on it was cancelled: get() removes an
\* item only in the get_nowait that ends it, which a cancelled get() never
\* reaches
CancelledGet(items) == items

\* asyncio.wait_for times out: get() is cancelled (its getter leaves the queue's
\* getters; a wake-up it had received is passed on while items remain) and
\* get_message returns None
get_timeout(g) ==
    /\ g \in 1..Len(gets)
    /\ Timed(gets[g].timeout)
    /\ gets[g].st \in {"start", "waiting", "woken"}
    /\ now >= gets[g].deadline
    /\ LET a == gets[g].agent
           rest == SelectSeq(waiters[a], LAMBDA x : x # g)
           pass == gets[g].st = "woken" /\ queues[a] # <<>> /\ rest # <<>>
       IN  /\ queues' = [queues EXCEPT ![a] = CancelledGet(@)]
           /\ waiters' = [waiters EXCEPT ![a] = IF pass THEN Tail(rest) ELSE rest]
           /\ gets' = [h \in 1..Len(gets) |->
                         IF h = g THEN [gets[h] EXCEPT !.st = "done", !.res = None]
                         ELSE IF pass /\ h = Head(rest)
                              THEN [gets[h] EXCEPT !.st = "woken"]
                              ELSE gets[h]]
    /\ UNCHANGED notQueueVars
    /\ UNCHANGED <<subscribers, subscriptions, ready, pubs, nsubs,
                   returned, now>>

\* get_all_messages with "if" for "while": one message per call
DrainResult_first(items) == IF items = <<>> THEN <<>> ELSE <<Head(items)>>

\* what get_all_messages returns for the items of a mailbox, oldest first
DrainResult(items) == items

\* AsyncMessageQueue.get_all_messages: self.queues[agent_id] is a defaultdict
\* lookup (it makes the queue when the key is missing); no get() of the loop
\* suspends, because each runs only while the queue is not empty
get_all_messages(agent_id) ==
    /\ LET items == IF agent_id \in DOMAIN queues THEN queues[agent_id] ELSE <<>>
           out == DrainResult(items)
       IN  /\ queues' = Put(queues, agent_id, SubSeq(items, Len(out) + 1, Len(items)))
           /\ returned' = [returned EXCEPT ![agent_id] =
                  @ \o [i \in 1..Len(out) |-> [msg |-> out[i], by |-> 0]]]
    /\ UNCHANGED notQueueVars
    /\ UNCHANGED <<waiters, subscribers, subscriptions, ready, pubs, nsubs,
                   gets, now>>

\* time passes
tick ==
    /\ now < MaxTime
    /\ now' = now + 1
    /\ UNCHANGED notQueueVars
    /\ UNCHANGED <<queues, waiters, subscribers, subscriptions, ready, pubs,
                   nsubs, gets, returned>>

\* ---------------------------------------------------------------- broker run-loop
\* a stop that leaves the queue's flag as it is
QueueStop_skipped(flag) == flag

\* AsyncMessageQueue.stop: the value of self._running afterwards
QueueStop(flag) == FALSE

\* AsyncMessageQueue.stop called on the queue itself
queue_stop ==
    /\ queue_running' = QueueStop(queue_running)
    /\ UNCHANGED <<broker_running, run_loop, notBrokerVars>>

\* the body of MessageBroker.stop
BrokerStop ==
    /\ broker_running' = FALSE
    /\ queue_running' = QueueStop(queue_running)

\* MessageBroker.stop
stop ==
    /\ BrokerStop
    /\ UNCHANGED <<run_loop, notBrokerVars>>

\* "while self._running": go to sleep for another round, or leave the loop and
\* run the finally clause, self.stop(), and return
LoopTest ==
    IF broker_running
    THEN /\ run_loop' = "sleep"
         /\ UNCHANGED <<broker_running, queue_running>>
    ELSE /\ run_loop' = "returned"
         /\ BrokerStop

\* MessageBroker.start up to its first suspension
start ==
    /\ run_loop = "idle"
    /\ LoopTest
    /\ UNCHANGED notBrokerVars

\* asyncio.sleep(0.1) is over and the loop tests the flag again
sleep_done ==
    /\ run_loop = "sleep"
    /\ LoopTest
    /\ UNCHANGED notBrokerVars

\* ---------------------------------------------------------------- flow coordinator
\* the record start_flow stores
NewFlow(document_path) ==
    [status |-> "started", document |-> document_path,
     steps_completed |-> <<>>, current_step |-> "parsing"]

\* a start_flow that forgets every other flow
StartFlow_only(flows, flow_id, document_path) ==
    [f \in {flow_id} |-> NewFlow(document_path)]

\* a start_flow that keeps a flow that is already there (dict.setdefault)
StartFlow_keep(flows, flow_id, document_path) ==
    IF flow_id \in DOMAIN flows THEN flows ELSE Put(flows, flow_id, NewFlow(document_path))

\* the body of FlowCoordinator.start_flow on the dict flows
StartFlow(flows, flow_id, document_path) ==
    Put(flows, flow_id, NewFlow(document_path))

\* FlowCoordinator.start_flow; restart: it replaced a flow that had completed steps
start_flow(flow_id, document_path) ==
    /\ active_flows' = StartFlow(active_flows, flow_id, document_path)
    /\ flow_log' = [flow_log EXCEPT ![flow_id] =
          [calls |-> <<>>,
           restart |-> /\ flow_id \in DOMAIN active_flows
                       /\ active_flows[flow_id].steps_completed # <<>>,
           ignored |-> FALSE, asked |-> FALSE]]
    /\ UNCHANGED notFlowVars

\* an update_flow that puts the step in front
UpdateFlow_prepend(flows, flow_id, status, step) ==
    IF flow_id \in DOMAIN flows
    THEN [flows EXCEPT ![flow_id].status = status,
                       ![flow_id].steps_completed = <<step>> \o @]
    ELSE flows

\* an update_flow that leaves the status as it was
UpdateFlow_nostatus(flows, flow_id, status, step) ==
    IF flow_id \in DOMAIN flows
    THEN [flows EXCEPT ![flow_id].steps_completed = Append(@, step)]
    ELSE flows

\* an update_flow that also moves current_step to the step
UpdateFlow_step(flows, flow_id, status, step) ==
    IF flow_id \in DOMAIN flows
    THEN [flows EXCEPT ![flow_id].status = status,
                       ![flow_id].steps_completed = Append(@, step),
                       ![flow_id].current_step = step]
    ELSE flows

\* an update_flow that makes the flow when it is missing
UpdateFlow_create(flows, flow_id, status, step) ==
    IF flow_id \in DOMAIN flows
    THEN [flows EXCEPT ![flow_id].status = status,
                       ![flow_id].steps_completed = Append(@, step)]
    ELSE Put(flows, flow_id, [NewFlow("") EXCEPT !.status = status,
                                                 !.steps_completed = <<step>>])

\* the body of FlowCoordinator.update_flow on the dict flows
UpdateFlow(flows, flow_id, status, step) ==
    IF flow_id \in DOMAIN flows
    THEN [flows EXCEPT ![flow_id].status = status,
                       ![flow_id].steps_completed = Append(@, step)]
    ELSE flows

\* FlowCoordinator.update_flow; ignored: the call found no flow for the id
update_flow(flow_id, status, step) ==
    /\ flow_id \in DOMAIN active_flows
          => Len(active_flows[flow_id].steps_completed) < MaxSteps
    /\ active_flows' = UpdateFlow(active_flows, flow_id, status, step)
    /\ flow_log' = [flow_log EXCEPT ![flow_id] =
          IF flow_id \in DOMAIN active_flows
          THEN [@ EXCEPT !.calls = Append(@, [status |-> status, step |-> step])]
          ELSE [@ EXCEPT !.ignored = TRUE]]
    /\ UNCHANGED notFlowVars

\* the empty dict returned for an unknown id
NoFlow == EmptyDict

\* what FlowCoordinator.get_flow_status returns: self.active_flows.get(flow_id, {})
GetFlowStatus(flows, flow_id) ==
    IF flow_id \in DOMAIN flows THEN flows[flow_id] ELSE NoFlow

\* a lookup that stores the default it returns (dict.setdefault)
FlowsAfterGet_insert(flows, flow_id) ==
    IF flow_id \in DOMAIN flows THEN flows ELSE Put(flows, flow_id, NoFlow)

\* the dict after self.active_flows.get(flow_id, {}): dict.get never inserts
FlowsAfterGet(flows, flow_id) == flows

\* FlowCoordinator.get_flow_status; asked: the call found no flow for the id
get_flow_status(flow_id) ==
    /\ active_flows' = FlowsAfterGet(active_flows, flow_id)
    /\ flow_log' = [flow_log EXCEPT ![flow_id] =
          IF flow_id \in DOMAIN active_flows THEN @ ELSE [@ EXCEPT !.asked = TRUE]]
    /\ UNCHANGED notFlowVars

\* ---------------------------------------------------------------- message records
\* the fields of the dataclass Message of the synchronous path
MessageFields == {"sender", "receiver", "content", "message_type", "metadata"}

\* the fields of the dataclass AsyncMessage
AsyncMessageFields ==
    {"id", "sender", "receiver", "content", "message_type", "metadata"}

\* Message(sender, receiver, content): message_type and metadata by default
Message(sender, receiver, content) ==
    [sender |-> sender, receiver |-> receiver, content |-> content,
     message_type |-> "data", metadata |-> None]

\* AsyncMessage(id, sender, receiver, content)
AsyncMessage(id, sender, receiver, content) ==
    [id |-> id, sender |-> sender, receiver |-> receiver, content |-> content,
     message_type |-> "data", metadata |-> None]

\* ---------------------------------------------------------------- synchronous path
\* AgentCommunication.register_agent
comm_register_agent(agent_name) ==
    /\ message_queues' = RegisterAgent(message_queues, agent_name)
    /\ UNCHANGED <<sent, received, notCommVars>>

\* the value AgentCommunication.send_message returns
SendResult(qs, receiver) == receiver \in DOMAIN qs

\* a send_message that makes the queue of an unknown receiver
SendQueues_create(qs, receiver, message) ==
    Put(qs, receiver, Append(IF receiver \in DOMAIN qs THEN qs[receiver] ELSE <<>>,
                             message))

\* the queues after AgentCommunication.send_message: Queue.put on a Queue()
\* without maxsize adds at the tail and never waits
SendQueues(qs, receiver, message) ==
    IF receiver \in DOMAIN qs
    THEN [qs EXCEPT ![receiver] = Append(@, message)]
    ELSE qs

\* AgentCommunication.send_message; the message is named by the number of the call
comm_send_message(receiver) ==
    /\ Len(sent) < MaxSends
    /\ message_queues' = SendQueues(message_queues, receiver, Len(sent) + 1)
    /\ sent' = Append(sent, [receiver |-> receiver,
                             result |-> SendResult(message_queues, receiver)])
    /\ UNCHANGED <<received, notCommVars>>

\* a get_messages that hands the newest message first
CommDrain_newest_first(items) ==
    [i \in 1..Len(items) |-> items[Len(items) + 1 - i]]

\* the list AgentCommunication.get_messages builds from the items of a queue:
\* queue.get() until queue.empty()
CommDrain(items) == items

\* AgentCommunication.get_messages
comm_get_messages(agent_name) ==
    /\ IF agent_name \in DOMAIN message_queues
       THEN /\ received' = [agent |-> agent_name,
                            messages |-> CommDrain(message_queues[agent_name])]
            /\ message_queues' = [message_queues EXCEPT ![agent_name] = <<>>]
       ELSE /\ received' = [agent |-> agent_name, messages |-> <<>>]
            /\ UNCHANGED message_queues
    /\ UNCHANGED <<sent, notCommVars>>

\* ---------------------------------------------------------------- embedder
\* the name embed_chunks sends its notifications to
StorageName == "vector_store"

\* RetrievIOAgent.send_message as call k of the embedder makes it: the
\* AsyncMessage gets message_type "data" unless the caller passes one, and
\* the action is a key of the content
SendMessage(k, receiver, action, request_id) ==
    [by |-> k, sender |-> "Embedder", receiver |-> receiver,
     message_type |-> "data", action |-> action, request_id |-> request_id]

\* "texts = [chunk.text for chunk in chunks]" raises on a chunk without .text
HasTexts(chunks) == \A i \in 1..Len(chunks) : chunks[i] = "chunk"

\* the except clause of embed_chunks: it notifies the storage worker and
\* raises again
EmbedFailed(k) == <<SendMessage(k, StorageName, "embedding_failed", 0)>>

\* the end of the try block of embed_chunks
EmbedCreated(k) == <<SendMessage(k, StorageName, "embeddings_created", 0)>>

\* what handle_message sends after embed_chunks: embed_response when it
\* returned, error from its own except clause when it raised
Reply(k, sender, raised) ==
    <<SendMessage(k, sender, IF raised THEN "error" ELSE "embed_response", k)>>

\* embed_chunks of call k leaves by return or by exception; through
\* handle_message the reply follows in the same run of the task
EmbedEnd(k, call, raised) ==
    /\ outbox' = outbox
                 \o (IF raised THEN EmbedFailed(k) ELSE EmbedCreated(k))
                 \o (IF call.via = "handler" THEN Reply(k, call.sender, raised)
                     ELSE <<>>)
    /\ embed_calls' = [i \in 1..Max(k, Len(embed_calls)) |->
          IF i = k
          THEN [call EXCEPT !.failed = raised, !.raised = raised,
                            !.st = IF call.via = "handler" THEN "handled"
                                   ELSE IF raised THEN "raised" ELSE "returned"]
          ELSE embed_calls[i]]

\* embed_chunks up to "await run_in_executor(None, self.model.encode, ..)"
EmbedBegin(k, call) ==
    IF HasTexts(call.chunks)
    THEN /\ embed_calls' = Append(embed_calls, [call EXCEPT !.st = "encoding"])
         /\ UNCHANGED outbox
    ELSE EmbedEnd(k, call, TRUE)

\* the record of a call when it begins
NewEmbed(via, sender, chunks) ==
    [via |-> via, sender |-> sender, chunks |-> chunks, st |-> "start",
     failed |-> FALSE, raised |-> FALSE]

\* EmbedderAgent.embed_chunks called directly
embed_chunks(chunks) ==
    /\ Len(embed_calls) < MaxEmbeds
    /\ EmbedBegin(Len(embed_calls) + 1, NewEmbed("direct", "", chunks))
    /\ UNCHANGED notEmbedVars

\* EmbedderAgent.handle_message: only an embed_request does anything
handle_message(sender, message_type, chunks) ==
    /\ Len(embed_calls) < MaxEmbeds
    /\ IF message_type = "embed_request"
       THEN EmbedBegin(Len(embed_calls) + 1, NewEmbed("handler", sender, chunks))
       ELSE /\ embed_calls' = Append(embed_calls,
                  [NewEmbed("handler", sender, chunks) EXCEPT !.st = "ignored"])
            /\ UNCHANGED outbox
    /\ UNCHANGED notEmbedVars

\* self.model.encode is over in the executor: it returned the embeddings
\* (ok) or raised
encode_done(k, ok) ==
    /\ k \in 1..Len(embed_calls)
    /\ embed_calls[k].st = "encoding"
    /\ EmbedEnd(k, embed_calls[k], ~ok)
    /\ UNCHANGED notEmbedVars

\* ---------------------------------------------------------------- action handler
\* Python's None as a handler result
NoneResult == [type |-> "NoneType"]

\* _handle_set_workspace: creates the directory when missing
\* (Path.mkdir raises when it cannot), returns {"path", "exists": True}
HandleSetWorkspace(path, existing) ==
    IF path \notin existing /\ path = "denied"
    THEN [raised |-> TRUE, error |-> <<"Permission denied: ", path>>, dirs |-> existing]
    ELSE [raised |-> FALSE,
          result |-> [type |-> "dict", path |-> path, exists |-> TRUE],
          dirs |-> existing \cup {path}]

\* _handle_process_document, _handle_search, _handle_ask: the body is pass
HandlePass(existing) ==
    [raised |-> FALSE, result |-> NoneResult, dirs |-> existing]

\* await handler(action.input, action.metadata)
CallHandler(handler, input, existing) ==
    IF handler = "set_workspace" THEN HandleSetWorkspace(input, existing)
    ELSE IF handler = "pass" THEN HandlePass(existing)
    ELSE IF handler = "returns"
         THEN [raised |-> FALSE, result |-> [type |-> "str", value |-> "done"],
               dirs |-> existing]
    ELSE [raised |-> TRUE, error |-> <<"handler failed">>, dirs |-> existing]

\* handle_action: the response, and the directories afterwards
HandleAction(table, name, input, existing) ==
    IF name \notin DOMAIN table
    THEN [response |-> [success |-> FALSE, action |-> name,
                        error |-> <<"Unknown action: ", name>>],
          dirs |-> existing]
    ELSE LET out == CallHandler(table[name], input, existing)
         IN  IF out.raised
             THEN [response |-> [success |-> FALSE, action |-> name,
                                 error |-> out.error],
                   dirs |-> out.dirs]
             ELSE [response |-> [success |-> TRUE, action |-> name,
                                 result |-> out.result],
                   dirs |-> out.dirs]

register_action(action_name, handler) ==
    /\ actions' = Put(actions, action_name, handler)
    /\ UNCHANGED <<dirs, action_calls, notActionVars>>

handle_action(name, input) ==
    /\ Len(action_calls) < MaxActions
    /\ LET out == HandleAction(actions, name, input, dirs)
       IN  /\ dirs' = out.dirs
           /\ action_calls' = Append(action_calls,
                  [name |-> name, input |-> input,
                   registered |-> name \in DOMAIN actions,
                   handler |-> IF name \in DOMAIN actions THEN actions[name] ELSE "",
                   response |-> out.response])
    /\ UNCHANGED <<actions, notActionVars>>

\* ---------------------------------------------------------------- event loop
\* whether the coroutine hands its collaborator call to the thread pool with
\* "await loop.run_in_executor(None, ...)".  FrontendAgent.process_input and
\* EngagementAgent.analyze_document call self.process(prompt) directly
Offloaded(op) == op \notin {"process_input", "analyze_document"}

\* some task is waiting for a collaborator call to return
CallOutstanding == \E t \in Workers : loop_tasks[t].pc # "idle"

\* task t, running on the event-loop thread, reaches its collaborator call:
\* an off-loaded call suspends the task and frees the thread, a direct call
\* keeps the thread until it returns
external_call(t, op) ==
    /\ loop_owner = NoTask
    /\ loop_tasks[t].pc = "idle"
    /\ IF Offloaded(op)
       THEN /\ loop_tasks' = [loop_tasks EXCEPT ![t] = [op |-> op, pc |-> "in_executor"]]
            /\ UNCHANGED loop_owner
       ELSE /\ loop_tasks' = [loop_tasks EXCEPT ![t] = [op |-> op, pc |-> "inline"]]
            /\ loop_owner' = t
    /\ UNCHANGED <<last_step, notLoopVars>>

\* the collaborator call of task t returns; the continuation of an
\* off-loaded call runs when the event-loop thread is free
call_returns(t) ==
    /\ loop_tasks[t].pc # "idle"
    /\ IF loop_tasks[t].pc = "inline"
       THEN loop_owner' = NoTask
       ELSE loop_owner = NoTask /\ UNCHANGED loop_owner
    /\ loop_tasks' = [loop_tasks EXCEPT ![t] = IdleTask]
    /\ UNCHANGED <<last_step, notLoopVars>>

\* a task that is not in a collaborator call completes a publish or a next:
\* it runs on the event-loop thread
task_step(t, kind) ==
    /\ loop_owner = NoTask
    /\ loop_tasks[t].pc = "idle"
    /\ last_step' = [task |-> t, kind |-> kind, during |-> CallOutstanding]
    /\ UNCHANGED <<loop_owner, loop_tasks, notLoopVars>>

\* ---------------------------------------------------------------- document pipeline
\* Path(file_path).stem
Stem(file) == IF file = "a.pdf" THEN "a" ELSE "b"

\* what a call of an agent's method hands back to process_document, which is
\* a plain function and awaits nothing.  The agents the constructor builds
\* have "async def" methods: the call yields a coroutine object, whatever the
\* method would compute.  An agent whose method was replaced by a plain
\* function (as the constructor does with watcher.handle_new_document) yields
\* the value
AgentCall(agents, value) ==
    IF agents = "coroutine" THEN [coroutine |-> TRUE]
    ELSE [coroutine |-> FALSE, value |-> value]

\* "if 'error' not in engagement": whether _save_engagement is called
SaveEngagement(engagement_ok) == engagement_ok

\* DocumentPipeline.process_document on the pipeline state st, with what the
\* collaborators would compute: text (parse_pdf), nchunks (chunk_text),
\* embed_ok (embed_chunks returns, or raises), store_ok (store_chunks),
\* engagement_ok (analyze_document's dict has no "error").
\* Gives the value returned, the statement that ended the call, and the
\* state afterwards
ProcessDocument(st, flow_id, file, text, nchunks, embed_ok, store_ok, engagement_ok) ==
    LET f1 == StartFlow(st.flows, flow_id, file)
        f2 == UpdateFlow(f1, flow_id, "parsed", "parsing")
        f3 == UpdateFlow(f2, flow_id, "chunked", "chunking")
        f4 == UpdateFlow(f3, flow_id, "embedded", "embedding")
        f5 == UpdateFlow(f4, flow_id, "stored", "storing")
        parsed == AgentCall(st.agents, text)
        chunks == AgentCall(st.agents, nchunks)
        stem == Stem(file)
        End(value, at, flows) ==
            [returned |-> value, at |-> at, flows |-> flows,
             watch |-> st.watch, processed |-> st.processed,
             chunks |-> st.chunks, engagement |-> st.engagement]
    IN  IF ~parsed.coroutine /\ parsed.value = "" THEN End(FALSE, "parse_pdf", f1)
        ELSE IF file \notin st.watch THEN End(FALSE, "stat", f2)
        ELSE IF chunks.coroutine THEN End(FALSE, "len(chunks)", f2)
        ELSE IF ~embed_ok THEN End(FALSE, "embed_chunks", f3)
        ELSE IF ~store_ok THEN End(FALSE, "store_chunks", f4)
        ELSE [returned |-> TRUE, at |-> "return", flows |-> f5,
              watch |-> st.watch \ {file},
              processed |-> st.processed \cup {file},
              chunks |-> [st.chunks EXCEPT ![stem] = IF @ > nchunks THEN @ ELSE nchunks],
              engagement |-> IF SaveEngagement(engagement_ok)
                             THEN st.engagement \cup {stem}
                             ELSE st.engagement]

\* a document appears in WATCH_DIR
drop_file(file) ==
    /\ file \notin watch_files
    /\ watch_files' = watch_files \cup {file}
    /\ UNCHANGED <<pipe_agents, pipe_flows, processed_files, chunk_files,
                   engagement_files, pipe_runs, notPipelineVars>>

\* the agents' methods are replaced by plain functions, or put back
replace_agents ==
    /\ pipe_agents' = IF pipe_agents = "coroutine" THEN "direct" ELSE "coroutine"
    /\ UNCHANGED <<pipe_flows, watch_files, processed_files, chunk_files,
                   engagement_files, pipe_runs, notPipelineVars>>

\* DocumentPipeline.process_document; flow_id is a fresh uuid4
process_document(file, text, nchunks, embed_ok, store_ok, engagement_ok) ==
    /\ Len(pipe_runs) < MaxPipeRuns
    /\ LET st == [agents |-> pipe_agents, flows |-> pipe_flows,
                  watch |-> watch_files, processed |-> processed_files,
                  chunks |-> chunk_files, engagement |-> engagement_files]
           out == ProcessDocument(st, Len(pipe_runs) + 1, file, text, nchunks,
                                  embed_ok, store_ok, engagement_ok)
       IN  /\ pipe_flows' = out.flows
           /\ watch_files' = out.watch
           /\ processed_files' = out.processed
           /\ chunk_files' = out.chunks
           /\ engagement_files' = out.engagement
           /\ pipe_runs' = Append(pipe_runs,
                  [file |-> file, returned |-> out.returned, at |-> out.at,
                   agents |-> pipe_agents])
    /\ UNCHANGED <<pipe_agents, notPipelineVars>>

\* ---------------------------------------------------------------- io_fs
\* len(content), what Path.write_text returns
StrLen(text) == IF text = "x" THEN 1 ELSE 5

IoRaise(name, files) == [raised |-> name, files |-> files]

IoReturn(result, files) == [raised |-> "", result |-> result, files |-> files]

\* an io_fs that takes any operation name for one it knows
Unsupported_none(operation) == FALSE

\* "if operation not in operations"
Unsupported(operation) == operation \notin IoOperations

\* 'read': path.read_text() if path.exists() else None
IoRead(files, path) ==
    IF path \in DOMAIN files
    THEN IoReturn([type |-> "str", value |-> files[path]], files)
    ELSE IoReturn(NoneResult, files)

\* 'write': path.write_text(content); write_text rejects a non-str before
\* it opens the file
IoWrite(files, path, content) ==
    IF content = IoNone THEN IoRaise("TypeError", files)
    ELSE IoReturn([type |-> "int", value |-> StrLen(content)],
                  Put(files, path, content))

\* 'move': shutil.move(str(path), content) between regular files
IoMove(files, path, content) ==
    IF content = IoNone THEN IoRaise("TypeError", files)
    ELSE IF path \notin DOMAIN files THEN IoRaise("FileNotFoundError", files)
    ELSE IoReturn([type |-> "str", value |-> content],
                  [q \in (DOMAIN files \ {path}) \cup {content} |->
                      IF q = content THEN files[path] ELSE files[q]])

\* io_fs on the files: the exception raised or the value returned, and the
\* files afterwards
IoFs(files, operation, path, content) ==
    IF Unsupported(operation) THEN IoRaise("ValueError", files)
    ELSE IF operation = "read" THEN IoRead(files, path)
    ELSE IF operation = "write" THEN IoWrite(files, path, content)
    ELSE IF operation = "list"
         THEN IoReturn([type |-> "list", value |-> <<>>], files)
    ELSE IF operation = "exists"
         THEN IoReturn([type |-> "bool", value |-> path \in DOMAIN files], files)
    ELSE IoMove(files, path, content)

io_fs(operation, path, content) ==
    /\ Len(io_calls) < MaxIoCalls
    /\ LET out == IoFs(io_files, operation, path, content)
       IN  /\ io_files' = out.files
           /\ io_calls' = Append(io_calls,
                  [operation |-> operation, path |-> path, content |-> content,
                   existed |-> path \in DOMAIN io_files, before |-> io_files,
                   after |-> out.files, raised |-> out.raised,
                   result |-> IF out.raised = "" THEN out.result ELSE NoneResult])
    /\ UNCHANGED notIoVars

\* ---------------------------------------------------------------- concurrent update_flow
\* a scheduler that may switch to another caller between any two statements
Yields_preemptive == TRUE

\* whether control can pass to another task between line 26 and line 27 of
\* update_flow: it is a plain function without await, and tasks of the event
\* loop change only at an await
Yields == FALSE

\* stage t may run its next statement
CanRun(t) == stage_holder = NoTask \/ stage_holder = t \/ Yields

\* coordinator.py:25-26: the membership test and the status assignment
UpdateStatus(flows, flow_id, status) ==
    IF flow_id \in DOMAIN flows
    THEN [flows EXCEPT ![flow_id].status = status]
    ELSE flows

\* coordinator.py:27: steps_completed.append(step)
AppendStep(flows, flow_id, step) ==
    IF flow_id \in DOMAIN flows
    THEN [flows EXCEPT ![flow_id].steps_completed = Append(@, step)]
    ELSE flows

\* stage t calls update_flow("f1", status, t) and runs it up to line 26
update_begin(t, status) ==
    /\ stages[t].pc = "ready"
    /\ CanRun(t)
    /\ stage_flows' = UpdateStatus(stage_flows, "f1", status)
    /\ stages' = [stages EXCEPT ![t] = [pc |-> "line27", status |-> status]]
    /\ stage_holder' = t
    /\ UNCHANGED notStageVars

\* stage t runs line 27 and its call returns
update_end(t) ==
    /\ stages[t].pc = "line27"
    /\ CanRun(t)
    /\ stage_flows' = AppendStep(stage_flows, "f1", t)
    /\ stages' = [stages EXCEPT ![t].pc = "done"]
    /\ stage_holder' = IF stage_holder = t THEN NoTask ELSE stage_holder
    /\ UNCHANGED notStageVars

\* ---------------------------------------------------------------- agent construction
\* "self._initialize_messaging()" in __init__: the call of an async def makes
\* a coroutine object; nothing awaits or schedules it, so its body, the
\* register_agent call, never runs
InitializeMessaging(qs, name) == qs

\* RetrievIOAgent.__init__ with message_queue set to the queue
construct_agent(name) ==
    /\ name \notin constructed
    /\ constructed' = constructed \cup {name}
    /\ queues' = InitializeMessaging(queues, name)
    /\ UNCHANGED <<waiters, subscribers, subscriptions, ready, pubs, nsubs,
                   gets, returned, now>>
    /\ UNCHANGED <<brokerVars, flowVars, commVars, embedVars, setupVars,
                   actionVars, loopVars, pipelineVars, ioVars, stageVars,
                   chunkerVars, chunkTextVars>>

\* ---------------------------------------------------------------- text chunker handler
\* RetrievIOAgent.send_message as call k of the chunker makes it
ChunkerSend(k, receiver, action, request_id) ==
    [by |-> k, sender |-> "Text Chunker", receiver |-> receiver,
     message_type |-> "data", action |-> action, request_id |-> request_id]

\* how chunk_text ends: it notifies "document_parser" and returns the chunks,
\* or, from its except clause, notifies the failure and returns []: it never
\* raises
ChunkTextEnd(k, failed) ==
    [sent |-> <<ChunkerSend(k, "document_parser",
                            IF failed THEN "chunking_failed" ELSE "chunks_created", 0)>>,
     raised |-> FALSE]

\* what handle_message sends to the requester: chunk_response after
\* chunk_text returned, error from its except clause
ChunkerReply(k, sender, raised) ==
    <<ChunkerSend(k, sender, IF raised THEN "error" ELSE "chunk_response", k)>>

\* TextChunkerAgent.handle_message up to the await of self.process in
\* chunk_text; message.content["text"] raises KeyError when the key is
\* missing, and a message of another type is ignored
chunker_handle_message(sender, message_type, has_text) ==
    /\ Len(chunker_calls) < MaxChunkCalls
    /\ LET k == Len(chunker_calls) + 1
           call == [sender |-> sender, message_type |-> message_type,
                    has_text |-> has_text, failed |-> FALSE, st |-> "start"]
       IN  IF message_type # "chunk_request"
           THEN /\ chunker_calls' = Append(chunker_calls, [call EXCEPT !.st = "ignored"])
                /\ UNCHANGED chunker_outbox
           ELSE IF ~has_text
           THEN /\ chunker_calls' = Append(chunker_calls,
                      [call EXCEPT !.st = "handled", !.failed = TRUE])
                /\ chunker_outbox' = chunker_outbox \o ChunkerReply(k, sender, TRUE)
           ELSE /\ chunker_calls' = Append(chunker_calls, [call EXCEPT !.st = "processing"])
                /\ UNCHANGED chunker_outbox
    /\ UNCHANGED notChunkerVars

\* self.process is over in the executor, with a response (ok) or with an
\* error; chunk_text ends and handle_message replies
chunker_process_done(k, ok) ==
    /\ k \in 1..Len(chunker_calls)
    /\ chunker_calls[k].st = "processing"
    /\ LET end == ChunkTextEnd(k, ~ok)
       IN  /\ chunker_outbox' = chunker_outbox \o end.sent
                                \o ChunkerReply(k, chunker_calls[k].sender, end.raised)
           /\ chunker_calls' = [chunker_calls EXCEPT ![k].st = "handled",
                                                     ![k].failed = ~ok]
    /\ UNCHANGED notChunkerVars

\* ---------------------------------------------------------------- chunking loop
\* the texts chunked: the sequences of at most MaxTextLen characters
ChunkTexts == UNION {[1..n -> Characters] : n \in 0..MaxTextLen}

\* a slice index as str.rfind and text[i:j] read it on a string of length
\* n: a negative index counts from the end, and the result is clipped to 0..n
SliceIndex(i, n) ==
    IF i < 0 THEN (IF i + n < 0 THEN 0 ELSE i + n)
    ELSE IF i > n THEN n ELSE i

\* text.rfind(' ', start, end): the highest 0-based index of a space in
\* text[start:end], or -1
RFind(text, from, end) ==
    LET lo == SliceIndex(from, Len(text))
        hi == SliceIndex(end, Len(text))
        found == {i \in lo..(hi - 1) : text[i + 1] = " "}
    IN  IF found = {} THEN -1
        ELSE CHOOSE i \in found : \A j \in found : j <= i

\* text[start:end]
Slice(text, from, end) ==
    LET lo == SliceIndex(from, Len(text))
        hi == SliceIndex(end, Len(text))
    IN  IF lo >= hi THEN <<>> ELSE SubSeq(text, lo + 1, hi)

\* the end of the window that starts at start: start + chunk_size, moved
\* back to just after the last space of the window when the window ends
\* before the text does
WindowEnd(text, from, chunk_size) ==
    LET end == from + chunk_size
    IN  IF end < Len(text) THEN RFind(text, from, end) + 1 ELSE end

\* TextChunk(text=text[start:end], start_idx=start, end_idx=end, ...)
TextChunk(text, from, end) ==
    [text |-> Slice(text, from, end), start_idx |-> from, end_idx |-> end]

\* chunk_text reaches its loop: chunks = [], start = 0
chunk_text(text, chunk_size, overlap) ==
    /\ ct_pc = "idle"
    /\ ct_text' = text
    /\ ct_chunk_size' = chunk_size
    /\ ct_overlap' = overlap
    /\ ct_start' = 0
    /\ ct_chunks' = <<>>
    /\ ct_pc' = "loop"
    /\ UNCHANGED notChunkTextVars

\* one iteration of 'while start < len(text)'
loop_iteration ==
    /\ ct_pc = "loop"
    /\ ct_start < Len(ct_text)
    /\ Len(ct_chunks) < MaxLoopRuns
    /\ LET end == WindowEnd(ct_text, ct_start, ct_chunk_size)
       IN  /\ ct_chunks' = Append(ct_chunks, TextChunk(ct_text, ct_start, end))
           /\ ct_start' = end - ct_overlap
    /\ UNCHANGED <<ct_text, ct_chunk_size, ct_overlap, ct_pc>>
    /\ UNCHANGED notChunkTextVars

\* the loop condition is false: the loop is over
loop_exit ==
    /\ ct_pc = "loop"
    /\ ct_start >= Len(ct_text)
    /\ ct_pc' = "done"
    /\ UNCHANGED <<ct_text, ct_chunk_size, ct_overlap, ct_start, ct_chunks>>
    /\ UNCHANGED notChunkTextVars

\* ---------------------------------------------------------------- session set-up
\* what a set-up run executes, in order.  session: __main__ imports
\* src.session, main() constructs RetrievIOSession (the broker, then the
\* agents, each with message_queue=self.broker.queue, then the subscriptions)
\* and awaits start().  agent: a RetrievIOAgent subclass constructed without
\* arguments, as DocumentParserAgent()
Steps(entry) ==
    IF entry = "session"
    THEN <<"import_session", "MessageBroker", "FrontendAgent", "other_agents",
           "setup_subscriptions", "broker_start", "watcher_start",
           "start_conversation">>
    ELSE <<"import_agent", "Agent_init", "ModelManager", "get_model_config",
           "initialize_messaging">>

\* how a step ends: "ok" or the exception it raises.
\* import_session: src/session.py imports agents/frontend_agent.py, whose
\*   "from ..config import WATCH_DIR, ModelConfig" names something config.py
\*   does not define;
\* FrontendAgent: session.py passes message_queue= to a constructor that takes
\*   only name;
\* ModelManager: _verify_connection turns any failure of ollama.list() into
\*   ConnectionError
StepOutcome(step, server) ==
    IF step = "import_session" THEN "ImportError"
    ELSE IF step = "FrontendAgent" THEN "TypeError"
    ELSE IF step = "ModelManager" /\ server = "down" THEN "ConnectionError"
    ELSE "ok"

\* what a step of RetrievIOSession.start starts
Starts(step) ==
    IF step = "broker_start" THEN {"run_loop"}
    ELSE IF step = "watcher_start" THEN {"watcher"}
    ELSE IF step = "start_conversation" THEN {"conversation"}
    ELSE {}

\* a set-up run begins; down: the server has been down at every step so far
begin(entry) ==
    /\ Len(runs) < MaxRuns
    /\ \A r \in 1..Len(runs) : runs[r].outcome # "running"
    /\ runs' = Append(runs, [entry |-> entry, pc |-> 1, outcome |-> "running",
                             started |-> {}, down |-> backend = "down"])
    /\ UNCHANGED <<backend, notSetupVars>>

\* the next step of run r: nothing between main() and the constructors
\* catches an exception, so the first one raised ends the run
setup_step(r) ==
    /\ r \in 1..Len(runs)
    /\ runs[r].outcome = "running"
    /\ LET run == runs[r]
           step == Steps(run.entry)[run.pc]
           out == StepOutcome(step, backend)
           down == run.down /\ backend = "down"
       IN  runs' = [runs EXCEPT ![r] =
              IF out # "ok"
              THEN [run EXCEPT !.outcome = out, !.down = down]
              ELSE [run EXCEPT !.pc = @ + 1, !.down = down,
                               !.started = @ \cup Starts(step),
                               !.outcome = IF run.pc = Len(Steps(run.entry))
                                           THEN "ok" ELSE "running"]]
    /\ UNCHANGED <<backend, notSetupVars>>

\* the Ollama server goes down or comes back
backend_change ==
    /\ backend' = IF backend = "up" THEN "down" ELSE "up"
    /\ UNCHANGED <<runs, notSetupVars>>

\* ---------------------------------------------------------------- Next
Next ==
    \/ \E a \in Agents : register_agent(a)
    \/ \E s \in SubscriberIds, p \in Senders : subscribe(s, p)
    \/ \E s \in Senders, r \in ReceiverIds : publish(s, r)
    \/ run_put

Spec == Init /\ [][Next]_vars

MailboxNext ==
    \/ \E a \in MailboxIds : register_agent(a)
    \/ \E s \in Senders, r \in MailboxIds : publish(s, r)
    \/ run_put
    \/ \E a \in MailboxIds, t \in Timeouts : get_message(a, t)
    \/ \E g \in 1..MaxGets : resume(g)
    \/ \E g \in 1..MaxGets : get_timeout(g)
    \/ \E a \in MailboxIds : get_all_messages(a)
    \/ tick

MailboxSpec == Init /\ [][MailboxNext]_vars

\* the event loop runs every task it has scheduled, fires every timer that is
\* due, and time passes
Fairness ==
    /\ WF_vars(run_put)
    /\ WF_vars(tick)
    /\ \A g \in 1..LiveGets : WF_vars(resume(g)) /\ WF_vars(get_timeout(g))

\* MailboxNext with fewer calls, for the properties checked over whole behaviours
LiveNext ==
    /\ MailboxNext
    /\ Len(pubs') <= LiveMsgs
    /\ Len(gets') <= LiveGets

LiveSpec == Init /\ [][LiveNext]_vars /\ Fairness

\* MailboxNext with the calls of PublishSpec
PublishNext ==
    /\ MailboxNext
    /\ Len(pubs') <= PubMsgs
    /\ Len(gets') <= PubGets

\* the event loop runs the put tasks publish created; no consumer, timer or
\* other caller is assumed to run ever again
PublishSpec == Init /\ [][PublishNext]_vars /\ WF_vars(run_put)

\* tasks calling register_agent, subscribe, publish, get_message and
\* get_all_messages on one mailbox, interleaved at every suspension point; the
\* clock is followed only while a wait_for timer is running
ConcurrentNext ==
    /\ \/ \E a \in MailboxIds : register_agent(a)
       \/ \E s \in MailboxIds, p \in Senders :
             subscribe(s, p) /\ p \notin DOMAIN subscriptions
       \/ \E s \in Senders, r \in MailboxIds : publish(s, r)
       \/ run_put
       \/ \E a \in MailboxIds, t \in ConcTimeouts : get_message(a, t)
       \/ \E g \in 1..MaxGets : resume(g)
       \/ \E g \in 1..MaxGets : get_timeout(g)
       \/ \E a \in MailboxIds : get_all_messages(a)
       \/ tick /\ \E g \in 1..Len(gets) : Timed(gets[g].timeout) /\ gets[g].st # "done"
    /\ Len(pubs') <= ConcMsgs
    /\ Len(gets') <= ConcGets

ConcurrentSpec == Init /\ [][ConcurrentNext]_vars

\* the broker's run-loop beside the tasks that register, publish and drain
BrokerNext ==
    \/ start
    \/ sleep_done
    \/ stop
    \/ queue_stop
    \/ \E a \in MailboxIds : register_agent(a)
    \/ (\E s \in Senders, r \in MailboxIds : publish(s, r)) /\ Len(pubs') <= PubMsgs
    \/ run_put
    \/ \E a \in MailboxIds : get_all_messages(a)

\* the event loop fires the timer of asyncio.sleep and runs the put tasks
BrokerSpec == Init /\ [][BrokerNext]_vars /\ WF_vars(sleep_done) /\ WF_vars(run_put)

\* the calls on the flow coordinator
FlowNext ==
    \/ \E f \in FlowIds, d \in Subjects : start_flow(f, d)
    \/ \E f \in FlowIds, st \in Labels, step \in Labels : update_flow(f, st, step)
    \/ \E f \in FlowIds : get_flow_status(f)

FlowSpec == Init /\ [][FlowNext]_vars

\* the calls on the synchronous path
CommNext ==
    \/ \E a \in CommAgents : comm_register_agent(a)
    \/ \E r \in CommAgents : comm_send_message(r)
    \/ \E a \in CommAgents : comm_get_messages(a)

CommSpec == Init /\ [][CommNext]_vars

\* the calls on the embedder and the end of its encode jobs
EmbedNext ==
    \/ \E c \in ChunkLists : embed_chunks(c)
    \/ \E r \in Requesters, t \in MessageTypes, c \in ChunkLists : handle_message(r, t, c)
    \/ \E k \in 1..MaxEmbeds, ok \in BOOLEAN : encode_done(k, ok)

EmbedSpec == Init /\ [][EmbedNext]_vars

\* set-up runs, one after the other, and the server going down and up
SetupNext ==
    \/ \E e \in Entries : begin(e)
    \/ \E r \in 1..MaxRuns : setup_step(r)
    \/ backend_change

SetupSpec == Init /\ [][SetupNext]_vars

\* handle_action calls, and handlers registered in between
ActionNext ==
    \/ \E n \in CustomNames, h \in CustomHandlers : register_action(n, h)
    \/ \E n \in ActionNames, i \in Paths : handle_action(n, i)

ActionSpec == Init /\ [][ActionNext]_vars

\* tasks of one event loop: collaborator calls, and broker operations
LoopNext ==
    \/ \E t \in Workers, op \in Ops : external_call(t, op)
    \/ \E t \in Workers : call_returns(t)
    \/ \E t \in Workers, k \in StepKinds : task_step(t, k)

LoopSpec == Init /\ [][LoopNext]_vars

\* documents dropped and processed by the pipeline
PipelineNext ==
    \/ \E f \in Files : drop_file(f)
    \/ replace_agents
    \/ \E f \in Files, t \in Texts, n \in 0..MaxChunks, e, s, g \in BOOLEAN :
           process_document(f, t, n, e, s, g)

PipelineSpec == Init /\ [][PipelineNext]_vars

\* io_fs calls on two paths
IoNext ==
    \E o \in IoNames, p \in IoPaths, c \in IoContents : io_fs(o, p, c)

IoSpec == Init /\ [][IoNext]_vars

\* the broker is stopped while agents register and publish
StoppedNext ==
    \/ stop
    \/ \E a \in Agents : register_agent(a)
    \/ \E s \in Senders, r \in ReceiverIds : publish(s, r)
    \/ run_put

StoppedSpec == Init /\ [][StoppedNext]_vars

\* only R registers; messages are published to R and to X, and both ids are
\* retrieved from
RetrievalNext ==
    \/ \E a \in MailboxIds : register_agent(a)
    \/ \E s \in Senders, r \in RetrievalIds : publish(s, r)
    \/ run_put
    \/ \E a \in RetrievalIds, t \in ConcTimeouts : get_message(a, t)
    \/ \E g \in 1..MaxGets : resume(g)
    \/ \E g \in 1..MaxGets : get_timeout(g)
    \/ \E a \in RetrievalIds : get_all_messages(a)
    \/ tick

RetrievalSpec == Init /\ [][RetrievalNext]_vars

\* the stages of a pipeline update one flow, each from its own task
StageNext ==
    \/ \E t \in Stages, st \in StageStatuses : update_begin(t, st)
    \/ \E t \in Stages : update_end(t)

StageSpec == Init /\ [][StageNext]_vars

\* agents are constructed on the queue or registered by hand, and messages
\* are published to them
AgentNext ==
    \/ \E a \in Agents : construct_agent(a)
    \/ \E a \in MailboxIds : register_agent(a)
    \/ \E s \in Senders, r \in ReceiverIds : publish(s, r)
    \/ run_put

AgentSpec == Init /\ [][AgentNext]_vars

\* the message handlers of the embedder and of the chunker
ReplyNext ==
    \/ \E r \in Requesters, t \in MessageTypes, c \in ChunkLists : handle_message(r, t, c)
    \/ \E k \in 1..MaxEmbeds, ok \in BOOLEAN : encode_done(k, ok)
    \/ \E r \in ChunkRequesters, t \in ChunkMessageTypes, h \in BOOLEAN :
           chunker_handle_message(r, t, h)
    \/ \E k \in 1..MaxChunkCalls, ok \in BOOLEAN : chunker_process_done(k, ok)

ReplySpec == Init /\ [][ReplyNext]_vars

\* the chunking loop on every text and every configuration with
\* 0 <= overlap < chunk_size
ChunkNext ==
    \/ \E text \in ChunkTexts, size \in 1..MaxChunkSize :
           \E overlap \in 0..(size - 1) : chunk_text(text, size, overlap)
    \/ loop_iteration
    \/ loop_exit

ChunkSpec == Init /\ [][ChunkNext]_vars

\* ================================================================ claims
\* the step is a publish call with this sender and receiver
PublishCall(sender, receiver) ==
    /\ Len(pubs') = Len(pubs) + 1
    /\ pubs'[Len(pubs')].sender = sender
    /\ pubs'[Len(pubs')].receiver = receiver

\* how many copies a publish call step hands to mailbox a: the put tasks the
\* step creates for a (run_put appends one copy per task)
Copies(a) ==
    Cardinality({i \in Len(ready) + 1 .. Len(ready') : ready'[i].to = a})

\* the workers subscribed to publisher by subscribe calls
Subscribed(publisher) ==
    IF publisher \in DOMAIN subscriptions THEN subscriptions[publisher] ELSE {}

\* C1: with S, R, X, Y distinct and registered and X, Y the subscribers of S,
\* after any earlier operations a publish from S to R adds exactly one copy to
\* each of the mailboxes of R, X and Y, and none to the mailbox of S.
C1_Claim ==
    [][\A S \in Senders, R \in Agents :
          LET XY == Subscribed(S)
          IN  (/\ PublishCall(S, R)
               /\ Cardinality(XY) = 2
               /\ S \notin XY /\ R \notin XY /\ R # S
               /\ {S, R} \cup XY \subseteq DOMAIN queues)
              => /\ \A a \in {R} \cup XY : Copies(a) = 1
                 /\ Copies(S) = 0]_vars

\* C2: when the explicit receiver R is also a subscriber of the sender, the
\* publish adds exactly one copy to the mailbox of R.
C2_Claim ==
    [][\A S \in Senders, R \in Agents :
          (/\ PublishCall(S, R)
           /\ R \in Subscribed(S)
           /\ R \in DOMAIN queues)
          => Copies(R) = 1]_vars

\* the resolved target set of a publish: the explicit receiver, if any, and
\* the subscribers of the sender
Targets(sender, receiver) ==
    (IF receiver # NoReceiver THEN {receiver} ELSE {}) \cup Subscribed(sender)

\* C3: publish returns true if at least one resolved target received the
\* message, false if there were resolved targets and none received it, and
\* true if there was no resolved target.
C3_Claim ==
    [][\A S \in Senders, R \in ReceiverIds :
          PublishCall(S, R) =>
             LET got == {a \in Targets(S, R) : Copies(a) > 0}
             IN  pubs'[Len(pubs')].result =
                    (got # {} \/ Targets(S, R) = {})]_vars

\* C4: when a publish resolves to several targets and some are unregistered,
\* every registered target still receives exactly one copy.
C4_Claim ==
    [][\A S \in Senders, R \in ReceiverIds :
          (/\ PublishCall(S, R)
           /\ Cardinality(Targets(S, R)) >= 2
           /\ Targets(S, R) \ DOMAIN queues # {})
          => \A a \in Targets(S, R) \cap DOMAIN queues : Copies(a) = 1]_vars

\* C9: registering an already registered worker id leaves exactly one mailbox
\* for that id and keeps every queued message, in the same order.
C9_Theorem ==
    \A a \in DOMAIN queues :
        /\ DOMAIN RegisterAgent(queues, a) = DOMAIN queues
        /\ RegisterAgent(queues, a)[a] = queues[a]

\* a registered worker with two messages queued, on which register_agent is
\* a step that ends in this same state
C9_Witness ==
    \E a \in DOMAIN queues :
        /\ Len(queues[a]) >= 2
        /\ RegisterAgent(queues, a) = queues

\* C10: subscribing a pair that is already subscribed leaves a single entry
\* for the subscriber in the publisher's subscriber collection.
C10_Claim ==
    [][\A s \in SubscriberIds, p \in Senders :
          (subscribe(s, p) /\ s \in Subscribed(p))
          => Count(subscribers'[p], s) = 1]_vars

\* the messages retrievals took out of mailbox a, in the order they were taken
Retrieved(a) == [i \in 1..Len(returned[a]) |-> returned[a][i].msg]

\* C5: each mailbox is FIFO: when publish of m1 had returned before publish of
\* m2 began and both reached mailbox a, every retrieval from a (get_message or
\* get_all_messages, in any mix) yields m1 before m2.
C5_Theorem ==
    \A a \in Agents :
        LET s == Retrieved(a)
        IN  \A i, j \in 1..Len(s) : s[i] \in pubs[s[j]].before => i < j

\* m1 was taken by a get_message call and m2, published after publish of m1
\* had returned, by a later get_all_messages
C5_Witness ==
    \E a \in MailboxIds :
        /\ Len(returned[a]) = 2
        /\ returned[a][1].by # 0
        /\ returned[a][2].by = 0
        /\ returned[a][1].msg \in pubs[returned[a][2].msg].before

\* C6: get_all_messages on a registered agent removes and returns every queued
\* message in arrival order, so that a second call with no delivery in between
\* finds the mailbox empty and returns nothing.
C6_Theorem ==
    [][\A a \in DOMAIN queues :
          get_all_messages(a) =>
             /\ Retrieved(a)' = Retrieved(a) \o queues[a]
             /\ queues'[a] = <<>>]_vars

\* one get_all_messages call has returned two messages and left the mailbox empty
C6_Witness ==
    \E a \in DOMAIN queues :
        /\ queues[a] = <<>>
        /\ Len(returned[a]) = 2
        /\ returned[a][1].by = 0 /\ returned[a][2].by = 0
        /\ gets = <<>>

\* call g of get_message on a registered agent
Called(g) == g <= Len(gets) /\ gets[g].known

Returned(g) == g <= Len(gets) /\ gets[g].st = "done"

\* some message has reached mailbox a
Delivered(a) ==
    returned[a] # <<>> \/ (a \in DOMAIN queues /\ queues[a] # <<>>)

\* C7: get_message(A, t) with a timeout value t >= 0 on a registered agent whose
\* mailbox stays empty returns the not-found result, and not before t has elapsed.
C7_Claim ==
    /\ \A g \in 1..MaxGets :
          (Called(g) /\ gets[g].timeout # NoTimeout)
             ~> (Called(g) /\ (Delivered(gets[g].agent)
                                 \/ (Returned(g) /\ gets[g].res = None)))
    /\ [](\A g \in 1..Len(gets) :
            (Called(g) /\ gets[g].timeout # NoTimeout /\ Returned(g)
               /\ gets[g].res = None) => now >= gets[g].deadline)

\* call g is a get_message without timeout on a registered agent
Blocking(g) == Called(g) /\ gets[g].timeout = NoTimeout

\* C8 as claimed: get_message(A) without timeout, suspended on the empty mailbox
\* of a registered agent, returns a message once one is delivered to A.
C8_Claim ==
    \A g \in 1..MaxGets :
        (Blocking(g) /\ ~Returned(g) /\ queues[gets[g].agent] # <<>>)
           ~> (Returned(g) /\ gets[g].res # None)

\* C8 as amended: get_message(A) without timeout never returns not-found; when it
\* returns, it returns the oldest pending message and removes it; and while it
\* is suspended and a message is pending, it eventually returns unless other
\* retrievals empty the mailbox first.
C8_Theorem ==
    /\ [](\A g \in 1..Len(gets) :
            (Blocking(g) /\ Returned(g)) => gets[g].res # None)
    /\ [][\A g \in 1..MaxGets :
            (Blocking(g)' /\ Returned(g)' /\ ~Returned(g)) =>
               LET a == gets'[g].agent
               IN  /\ queues[a] # <<>>
                   /\ gets'[g].res = Head(queues[a])
                   /\ queues'[a] = Tail(queues[a])]_vars
    /\ \A g \in 1..MaxGets :
          (Blocking(g) /\ ~Returned(g) /\ queues[gets[g].agent] # <<>>)
             ~> (Called(g) /\ (Returned(g) \/ queues[gets[g].agent] = <<>>))

\* a get_message without timeout that was suspended on an empty mailbox and
\* has returned the message delivered afterwards
C8_Witness ==
    \E g \in 1..Len(gets) :
        /\ Blocking(g) /\ gets[g].waited /\ Returned(g)
        /\ gets[g].res # None
        /\ [msg |-> gets[g].res, by |-> g] \in Range(returned[gets[g].agent])

\* C11: a publish whose explicit receiver was never registered fails with an
\* error outcome its caller can observe (publish catches every exception, so
\* the outcome the caller sees is the value returned).
C11_Claim ==
    [][\A S \in Senders, R \in ReceiverIds :
          (/\ PublishCall(S, R)
           /\ R # NoReceiver
           /\ R \notin DOMAIN queues)
          => pubs'[Len(pubs')].result = FALSE]_vars

\* C12: a publish that names a receiver without a mailbox creates the mailbox
\* and hands it the message, so that it is held for later retrieval.
C12_Claim ==
    [][\A S \in Senders, R \in ReceiverIds :
          (/\ PublishCall(S, R)
           /\ R # NoReceiver
           /\ R \notin DOMAIN queues)
          => /\ R \in DOMAIN queues'
             /\ Copies(R) >= 1]_vars

\* the put tasks of publish call p that have not run yet
OwnTasks(p) == {i \in 1..Len(ready) : ready[i].msg = p}

Pending(a) == IF a \in DOMAIN queues THEN queues[a] ELSE <<>>

\* the entries of returned[a] handed to get_message call g
TakenBy(a, g) == {i \in 1..Len(returned[a]) : returned[a][i].by = g}

\* C14: under every interleaving of register_agent, subscribe, publish,
\* get_message and get_all_messages tasks, several consumers of one mailbox
\* included, no delivered copy is lost or duplicated: what retrievals have
\* returned followed by what is pending is exactly what the put tasks delivered,
\* in order, and each copy returned went to one consumer call.
C14_Theorem ==
    /\ [][\A a \in DOMAIN queues' :
            LET before == Retrieved(a) \o Pending(a)
                after == Retrieved(a)' \o Pending(a)'
            IN  IF run_put /\ Head(ready).to = a
                THEN after = Append(before, Head(ready).msg)
                ELSE after = before]_vars
    /\ [](\A g \in 1..Len(gets) : \A a \in DOMAIN queues :
            IF gets[g].st = "done" /\ gets[g].res # None /\ gets[g].agent = a
            THEN /\ Cardinality(TakenBy(a, g)) = 1
                 /\ \A i \in TakenBy(a, g) : returned[a][i].msg = gets[g].res
            ELSE TakenBy(a, g) = {})

\* two get_message calls were suspended on the same mailbox, two copies were
\* delivered, and each call has returned one of them
C14_Witness ==
    \E g, h \in 1..Len(gets) :
        /\ g # h /\ gets[g].agent = gets[h].agent
        /\ gets[g].waited /\ gets[h].waited
        /\ Returned(g) /\ Returned(h)
        /\ gets[g].res # None /\ gets[h].res # None
        /\ Len(returned[gets[g].agent]) = 2
        /\ nsubs > 0

\* C15: once stop() has been called, a started run-loop eventually sees the
\* flag and returns; when it has returned, the flag is down on the broker and
\* on its queue; and a further stop() changes nothing.
C15_Theorem ==
    /\ (~broker_running /\ run_loop # "idle") ~> (run_loop = "returned")
    /\ [](run_loop = "returned" => ~broker_running /\ ~queue_running)
    /\ [][(stop /\ ~broker_running) => UNCHANGED vars]_vars

\* stop() has been called while messages were being published, and the started
\* run-loop has returned with both flags down
C15_Witness ==
    /\ run_loop = "returned"
    /\ ~broker_running /\ ~queue_running
    /\ pubs # <<>>

\* C16: start_flow(id, subject) leaves for id a record with status "started",
\* no completed step, current_step "parsing" and the given subject, and leaves
\* every other flow as it was.
C16_Theorem ==
    [][\A f \in FlowIds, d \in Subjects :
          start_flow(f, d) =>
             /\ DOMAIN active_flows' = DOMAIN active_flows \cup {f}
             /\ active_flows'[f].status = "started"
             /\ active_flows'[f].steps_completed = <<>>
             /\ active_flows'[f].current_step = "parsing"
             /\ active_flows'[f].document = d
             /\ \A o \in DOMAIN active_flows \ {f} :
                   active_flows'[o] = active_flows[o]]_vars

\* a flow has just been started while another flow with a completed step is
\* still as it was
C16_Witness ==
    \E f, o \in DOMAIN active_flows :
        /\ f # o
        /\ active_flows[f] = NewFlow("b.pdf")
        /\ flow_log[f].calls = <<>> /\ ~flow_log[f].restart
        /\ active_flows[o].steps_completed # <<>>
        /\ active_flows[o].document = "doc.pdf"

\* s is a prefix of t
IsPrefix(s, t) == Len(s) <= Len(t) /\ SubSeq(t, 1, Len(s)) = s

\* C17 as claimed: over every sequence of start_flow, update_flow and
\* get_flow_status calls, steps_completed of a flow only grows.
C17_Claim ==
    [][\A f \in DOMAIN active_flows :
          /\ f \in DOMAIN active_flows'
          /\ IsPrefix(active_flows[f].steps_completed,
                      active_flows'[f].steps_completed)]_vars

\* C17 as amended: no flow is ever removed; update_flow and get_flow_status
\* only let steps_completed grow, each update_flow on an existing flow adding
\* its step at the end; the one step that removes completed steps is a
\* start_flow on the id of an existing flow, which leaves none.
C17_Theorem ==
    [][\A f \in DOMAIN active_flows :
          /\ f \in DOMAIN active_flows'
          /\ \/ IsPrefix(active_flows[f].steps_completed,
                         active_flows'[f].steps_completed)
             \/ /\ \E d \in Subjects : start_flow(f, d)
                /\ active_flows'[f].steps_completed = <<>>
          /\ \A st \in Labels, step \in Labels :
                update_flow(f, st, step) =>
                   active_flows'[f].steps_completed =
                      Append(active_flows[f].steps_completed, step)]_vars

\* a flow has two different completed steps, added by two update_flow calls
C17_Witness ==
    \E f \in DOMAIN active_flows :
        /\ Len(active_flows[f].steps_completed) = 2
        /\ active_flows[f].steps_completed[1] # active_flows[f].steps_completed[2]
        /\ Len(flow_log[f].calls) = 2

\* C18: start_flow on an id that already has a flow replaces it: afterwards the
\* flow has status "started", the new subject and no completed step, whatever
\* steps were recorded before.
C18_Theorem ==
    /\ [][\A f \in DOMAIN active_flows, d \in Subjects :
            start_flow(f, d) =>
               /\ active_flows'[f].status = "started"
               /\ active_flows'[f].document = d
               /\ active_flows'[f].steps_completed = <<>>]_vars
    /\ [](\A f \in FlowIds :
            flow_log[f].restart =>
               /\ f \in DOMAIN active_flows
               /\ Len(active_flows[f].steps_completed) = Len(flow_log[f].calls))

\* a flow that had completed steps was started again under another subject
\* and is back to "started" with no completed step
C18_Witness ==
    \E f \in DOMAIN active_flows :
        /\ flow_log[f].restart
        /\ flow_log[f].calls = <<>>
        /\ active_flows[f] = NewFlow("b.pdf")

\* C19: after start_flow(id, subject) and update_flow(id, s1, p1) ..
\* update_flow(id, sn, pn) with any labels, repeated ones included,
\* get_flow_status(id) yields status sn ("started" when n = 0) and
\* steps_completed p1 .. pn in call order.
C19_Theorem ==
    \A f \in DOMAIN active_flows :
        LET log == flow_log[f].calls
            got == GetFlowStatus(active_flows, f)
        IN  /\ got.steps_completed = [i \in 1..Len(log) |-> log[i].step]
            /\ got.status = IF log = <<>> THEN "started" ELSE log[Len(log)].status

\* two update_flow calls with the same step label, the second with a status
\* that is the name of an earlier stage
C19_Witness ==
    \E f \in DOMAIN active_flows :
        /\ flow_log[f].calls = << [status |-> "parsed", step |-> "parsing"],
                                  [status |-> "parsing", step |-> "parsing"] >>
        /\ GetFlowStatus(active_flows, f).status = "parsing"
        /\ GetFlowStatus(active_flows, f).steps_completed = <<"parsing", "parsing">>

\* C20: update_flow on an id that has no flow completes, makes no flow for that
\* id and leaves the whole flow map as it was.
C20_Theorem ==
    /\ [][\A f \in FlowIds, st \in Labels, step \in Labels :
            (update_flow(f, st, step) /\ f \notin DOMAIN active_flows)
               => active_flows' = active_flows]_vars
    /\ [](\A f \in FlowIds \ DOMAIN active_flows :
            \A st \in Labels, step \in Labels : ENABLED update_flow(f, st, step))

\* an update_flow call found no flow for its id: the id still has no flow and
\* the other flow is there with its completed step
C20_Witness ==
    \E f \in FlowIds \ DOMAIN active_flows :
        /\ flow_log[f].ignored
        /\ \E o \in DOMAIN active_flows : active_flows[o].steps_completed # <<>>

\* C21: get_flow_status on an id without a flow completes, returns the empty
\* record and does not add the id to the flow map.
C21_Theorem ==
    /\ [][\A f \in FlowIds :
            (get_flow_status(f) /\ f \notin DOMAIN active_flows)
               => active_flows' = active_flows]_vars
    /\ [](\A f \in FlowIds \ DOMAIN active_flows :
            /\ ENABLED get_flow_status(f)
            /\ GetFlowStatus(active_flows, f) = NoFlow
            /\ FlowsAfterGet(active_flows, f) = active_flows)

\* a get_flow_status call found no flow for its id, and the id still has none
\* while another flow is there
C21_Witness ==
    \E f \in FlowIds \ DOMAIN active_flows :
        /\ flow_log[f].asked
        /\ GetFlowStatus(active_flows, f) = NoFlow
        /\ DOMAIN active_flows # {}

\* C22: update_flow(id, status, step) on an existing flow changes only status
\* and steps_completed of that flow: its current_step and document, every other
\* flow and the set of flow ids stay as they were.
C22_Theorem ==
    [][\A f \in DOMAIN active_flows, st \in Labels, step \in Labels :
          update_flow(f, st, step) =>
             /\ DOMAIN active_flows' = DOMAIN active_flows
             /\ active_flows'[f].current_step = active_flows[f].current_step
             /\ active_flows'[f].document = active_flows[f].document
             /\ \A o \in DOMAIN active_flows \ {f} :
                   active_flows'[o] = active_flows[o]]_vars

\* a flow was updated with step "parsed" and still has current_step "parsing"
\* and its subject, beside another flow that has no update
C22_Witness ==
    \E f, o \in DOMAIN active_flows :
        /\ f # o
        /\ flow_log[f].calls # <<>>
        /\ active_flows[f].steps_completed[1] = "parsed"
        /\ active_flows[f].current_step = "parsing"
        /\ active_flows[f].document = "b.pdf"
        /\ active_flows[o] = NewFlow("doc.pdf")

\* C23: on the synchronous path, send_message to a receiver that was never
\* registered returns false, makes no queue and leaves every queue as it was;
\* send_message to a registered receiver returns true and adds the message at
\* the tail of that receiver's queue and of no other.
C23_Theorem ==
    /\ [][\A r \in CommAgents :
            comm_send_message(r) =>
               LET call == sent'[Len(sent')]
               IN  IF r \in DOMAIN message_queues
                   THEN /\ call.result = TRUE
                        /\ DOMAIN message_queues' = DOMAIN message_queues
                        /\ message_queues'[r] = Append(message_queues[r], Len(sent'))
                        /\ \A o \in DOMAIN message_queues \ {r} :
                              message_queues'[o] = message_queues[o]
                   ELSE /\ call.result = FALSE
                        /\ message_queues' = message_queues]_vars
    /\ [](\A r \in CommAgents : ENABLED comm_send_message(r) \/ Len(sent) = MaxSends)

\* one send_message to an unregistered receiver returned false and one to a
\* registered receiver returned true; only the second message is queued
C23_Witness ==
    /\ Len(sent) = 2
    /\ sent[1].result = FALSE /\ sent[2].result = TRUE
    /\ sent[1].receiver \notin DOMAIN message_queues
    /\ message_queues[sent[2].receiver] = <<2>>

\* C24: on the synchronous path, get_messages of a registered agent returns
\* everything queued for it, in send order, and leaves its queue empty; for an
\* unregistered agent it returns the empty list and makes no queue.
C24_Theorem ==
    /\ [][\A a \in CommAgents :
            comm_get_messages(a) =>
               IF a \in DOMAIN message_queues
               THEN /\ received'.messages = message_queues[a]
                    /\ message_queues'[a] = <<>>
                    /\ DOMAIN message_queues' = DOMAIN message_queues
               ELSE /\ received'.messages = <<>>
                    /\ message_queues' = message_queues]_vars
    /\ [](\A a \in DOMAIN message_queues :
            \A i, j \in 1..Len(message_queues[a]) :
               i < j => message_queues[a][i] < message_queues[a][j])
    /\ [](\A i, j \in 1..Len(received.messages) :
            i < j => received.messages[i] < received.messages[j])

\* get_messages has returned two messages of a registered agent, the one sent
\* first in front, and the queue is empty
C24_Witness ==
    /\ received.agent \in DOMAIN message_queues
    /\ received.messages = <<1, 2>>
    /\ message_queues[received.agent] = <<>>

\* the record of the message that call n of send_message put on the queue of
\* its receiver
Queued(n) == Message("A", sent[n].receiver, n)

\* C25: the message record of the synchronous path has the same fields as the
\* message record of the async path (id, sender, receiver, content,
\* message_type, metadata): every message queued on the synchronous path is a
\* valid message of the async path.
C25_Claim ==
    \A a \in DOMAIN message_queues :
        \A i \in 1..Len(message_queues[a]) :
            /\ DOMAIN Queued(message_queues[a][i]) = AsyncMessageFields
            /\ DOMAIN Queued(message_queues[a][i]) = MessageFields

\* the messages call k of the embedder has sent
SentBy(k) == {i \in 1..Len(outbox) : outbox[i].by = k}

\* C26: when the embedding computation fails inside embed_chunks, a message
\* with message_type "embedding_failed" is published toward the storage worker
\* and embed_chunks does not leave by an exception.
C26_Claim ==
    \A k \in 1..Len(embed_calls) :
        (embed_calls[k].failed /\ embed_calls[k].st # "encoding") =>
           /\ \E i \in SentBy(k) :
                 /\ outbox[i].receiver = StorageName
                 /\ outbox[i].message_type = "embedding_failed"
           /\ ~embed_calls[k].raised

\* C27: when the LLM backend is unreachable while the session is set up, the
\* set-up ends with the ConnectionError propagating out, and nothing of the
\* session (run-loop, watcher, conversation) has been started.
C27_Claim ==
    \A r \in 1..Len(runs) :
        (runs[r].entry = "session" /\ runs[r].down /\ runs[r].outcome # "running")
           => /\ runs[r].outcome = "ConnectionError"
              /\ runs[r].started = {}

\* C28: handle_action always returns a response: success=false with an error
\* naming the action when the name is not in the dispatch table; for a
\* registered action, success=true only with a result the handler produced
\* (never an empty one), and success=false with the error when the handler
\* raised.
C28_Claim ==
    \A i \in 1..Len(action_calls) :
        LET c == action_calls[i]
            r == c.response
        IN  /\ r.action = c.name
            /\ ~c.registered
                 => ~r.success /\ r.error = <<"Unknown action: ", c.name>>
            /\ c.registered
                 => IF r.success
                    THEN r.result # NoneResult
                    ELSE "error" \in DOMAIN r

\* C29: while a task waits for a collaborator call (text extraction,
\* embedding, vector-store I/O, LLM completion) to return, the event loop is
\* not blocked: every other task that is not itself in such a call can take
\* and complete a publish or a next step.
C29_Claim ==
    \A t \in Workers :
        loop_tasks[t].pc # "idle"
           => \A u \in Workers \ {t}, k \in StepKinds :
                  loop_tasks[u].pc = "idle" => ENABLED task_step(u, k)

C31_Theorem ==
    \A i \in 1..Len(io_calls) :
        LET c == io_calls[i]
        IN  /\ c.operation \notin {"read", "write", "list", "exists", "move"}
                 => c.raised = "ValueError" /\ c.after = c.before
            /\ (c.operation = "read" /\ ~c.existed)
                 => c.raised = "" /\ c.result = NoneResult /\ c.after = c.before

C31_Witness ==
    \E i, j \in 1..Len(io_calls) :
        /\ io_calls[i].operation = "invalid_op"
        /\ io_calls[i].before # EmptyDict
        /\ io_calls[j].operation = "read" /\ ~io_calls[j].existed

\* C32: once stop() has been called on the broker, a further register call
\* registers nothing, and a further publish call returns an error outcome and
\* creates no delivery.
C32_Claim ==
    [][~broker_running
          => /\ DOMAIN queues' = DOMAIN queues
             /\ Len(pubs') > Len(pubs)
                   => ~pubs'[Len(pubs')].result /\ ready' = ready]_vars

\* C33: publish leaves the subscription table unchanged: the subscribers of
\* every publisher are those added by subscribe calls, whatever was published.
C33_Claim ==
    [][Len(pubs') > Len(pubs) => subscribers' = subscribers]_vars

\* C34: in every reachable state, for every publisher, the subscribers
\* recorded in MessageBroker.subscriptions are the entries of
\* AsyncMessageQueue.subscribers for that publisher.
C34_Claim ==
    \A p \in Agents :
        Range(SubscribersGet(p)) =
            (IF p \in DOMAIN subscriptions THEN subscriptions[p] ELSE {})

\* C35: retrieval never registers anybody: where only R ever registers,
\* get_message and get_all_messages on the id X create no mailbox for X, and
\* a publish naming X makes no delivery to X.
C35_Claim ==
    /\ DOMAIN queues \subseteq MailboxIds
    /\ \A i \in 1..Len(ready) : ready[i].to \in MailboxIds

\* C36: a get_message with a timeout that returns None consumes nothing: the
\* step in which it returns leaves every mailbox and everything retrieved so
\* far as they were, so a message delivered while the timeout expired stays
\* in the mailbox for a later retrieval.
C36_Theorem ==
    [][\A g \in 1..Len(gets) :
          (/\ gets[g].known /\ Timed(gets[g].timeout)
           /\ ~Returned(g) /\ Returned(g)' /\ gets'[g].res = None)
             => queues' = queues /\ returned' = returned]_vars

\* a get_message with a timeout was suspended on the empty mailbox, has
\* returned None, and the message delivered meanwhile is in the mailbox
C36_Witness ==
    \E g \in 1..Len(gets) :
        /\ gets[g].known /\ Timed(gets[g].timeout) /\ gets[g].waited
        /\ Returned(g) /\ gets[g].res = None
        /\ now = gets[g].deadline
        /\ queues[gets[g].agent] # <<>>

UpdateFlowSplit ==
    \A st \in StageStatuses, t \in Stages :
        AppendStep(UpdateStatus(stage_flows, "f1", st), "f1", t)
            = UpdateFlow(stage_flows, "f1", st, t)

\* C38: every worker is registered before it is used: once a RetrievIOAgent
\* has been constructed with a message queue, its name has a mailbox in that
\* queue, so that a message published to it is delivered.
C38_Claim == \A a \in constructed : a \in DOMAIN queues

\* the replies call k of a handler has sent to the requester: the messages of
\* the outbox box by call k that carry request_id k
RepliesOf(box, k, sender) ==
    {i \in 1..Len(box) :
        box[i].by = k /\ box[i].receiver = sender /\ box[i].request_id = k}

\* the embedder's part of C39
C39_Embedder ==
    \A k \in 1..Len(embed_calls) :
        (embed_calls[k].via = "handler" /\ embed_calls[k].st = "handled") =>
           /\ Cardinality(RepliesOf(outbox, k, embed_calls[k].sender)) = 1
           /\ \A i \in RepliesOf(outbox, k, embed_calls[k].sender) :
                 outbox[i].action =
                    IF embed_calls[k].failed THEN "error" ELSE "embed_response"

\* C39: for every embed_request (embedder) or chunk_request (chunker) message
\* handled, exactly one reply goes to the request's sender with request_id
\* equal to the request's id: a response reply when the work succeeded, an
\* error reply when it failed.
C39_Claim ==
    /\ C39_Embedder
    /\ \A k \in 1..Len(chunker_calls) :
          chunker_calls[k].st = "handled" =>
             /\ Cardinality(RepliesOf(chunker_outbox, k, chunker_calls[k].sender)) = 1
             /\ \A i \in RepliesOf(chunker_outbox, k, chunker_calls[k].sender) :
                   chunker_outbox[i].action =
                      IF chunker_calls[k].failed THEN "error" ELSE "chunk_response"

\* C40: the chunking loop terminates for every text and every configuration
\* with 0 <= overlap < chunk_size, and every chunk it emits satisfies
\* 0 <= start_idx < end_idx <= len(text), with start_idx strictly increasing
\* from chunk to chunk.  The body of the loop is a function of start, so the
\* loop ends exactly when it never comes back to a start it had before.
C40_Claim ==
    /\ \A i \in 1..Len(ct_chunks) :
          /\ 0 <= ct_chunks[i].start_idx
          /\ ct_chunks[i].start_idx < ct_chunks[i].end_idx
          /\ ct_chunks[i].end_idx <= Len(ct_text)
    /\ \A i \in 1..(Len(ct_chunks) - 1) :
          ct_chunks[i].start_idx < ct_chunks[i + 1].start_idx
    /\ ct_pc = "loop" =>
          \A i \in 1..Len(ct_chunks) : ct_chunks[i].start_idx # ct_start

\* the parts of C40, each on its own
C40_EndInText == \A i \in 1..Len(ct_chunks) : ct_chunks[i].end_idx <= Len(ct_text)

C40_NonEmpty == \A i \in 1..Len(ct_chunks) : ct_chunks[i].start_idx < ct_chunks[i].end_idx

C40_StartInText == \A i \in 1..Len(ct_chunks) : 0 <= ct_chunks[i].start_idx

C40_NoRepeat ==
    ct_pc = "loop" => \A i \in 1..Len(ct_chunks) : ct_chunks[i].start_idx # ct_start

====
